---- MODULE Spec2Model ----
(***************************************************************************)
(* The RGSS encrypted archive backend of src/src/filesystem.cpp: the       *)
(* keystream recurrence, the entry table parser (RGSS_openArchive), the    *)
(* archiver operations (enumerate, stat, openRead, the unsupported ones)   *)
(* and the entry I/O handle (read, seek, duplicate, destroy); and the      *)
(* name resolution of the FileSystem facade (exists, openRead) and the     *)
(* FileStream objects it hands out.                                        *)
(*                                                                         *)
(* Numbers.  TLC's integers are 32-bit signed, so a quint32 is kept as its *)
(* four bytes, least significant first (<<b0, b1, b2, b3>>), and the       *)
(* product magic * 7 + 3 (mod 2^32) is computed bytewise with carries.     *)
(* Offsets and sizes (quint64) are naturals; the two places where the      *)
(* code's unsigned arithmetic can wrap (size - 1 in seek, size - offset in *)
(* read) are modelled with the wrapped value's effect.                     *)
(*                                                                         *)
(* Strings.  A path is the sequence of its character codes.                *)
(***************************************************************************)
EXTENDS Integers, Sequences, FiniteSets, TLC

VARIABLES
    stream,      \* the bytes of the backing file handed to openArchive
    archivePos,  \* position of the archive's own PHYSFS_Io (archiveIo)
    mount,       \* "none" | "declined" | "mounted" | "crashed" | "closed"
    archive,     \* RGSS_archiveData: [entryHash, dirHash], or NoArchive
    handles,     \* the RGSS_entryHandle objects created so far, by id
    ios,         \* raw stream duplicates made by openRead: id -> position
    crashed,     \* the process dereferenced an invalid PHYSFS_Io pointer
    physfs,      \* the names for which PHYSFS_exists holds (all mounts merged)
    threads,     \* per entry handle, where its thread is inside RGSS_ioRead
    fileStreams, \* the FileStream objects and the PHYSFS_File handles they hold
    last         \* what the last operation was given and what it returned

vars ==
    <<stream, archivePos, mount, archive, handles, ios, crashed, physfs,
      threads, fileStreams, last>>

(***************************************************************************)
(* Bounds of the model.                                                    *)
(***************************************************************************)
MaxHandles == 2     \* entry handles created in one run (openRead + duplicate)
MaxLen == 2         \* largest len passed to one read call
MaxOffset == 4      \* largest seek target; a read past the entry ends at or below it

(***************************************************************************)
(* Bytes and 32-bit words.                                                 *)
(***************************************************************************)
Slash == 47
Backslash == 92

Min(a, b) == IF a <= b THEN a ELSE b

Bit(x, i) == (x \div (2 ^ i)) % 2

\* a ^ b on two bytes
Xor8(a, b) ==
    LET x(i) == ((Bit(a, i) + Bit(b, i)) % 2) * (2 ^ i)
    IN  x(0) + x(1) + x(2) + x(3) + x(4) + x(5) + x(6) + x(7)

\* a ^ b on two quint32
XorWord(a, b) == <<Xor8(a[1], b[1]), Xor8(a[2], b[2]),
                   Xor8(a[3], b[3]), Xor8(a[4], b[4])>>

\* the value of a quint32 below 2^31
ToNat(w) == w[1] + 256 * w[2] + 65536 * w[3] + 16777216 * w[4]

\* the quint32 of a natural below 2^31
ToWord(n) == <<n % 256, (n \div 256) % 256, (n \div 65536) % 256,
               (n \div 16777216) % 256>>

RGSS_HEADER_1 == <<82, 71, 83, 83>>       \* 0x53534752
RGSS_HEADER_2 == <<65, 68, 0, 1>>         \* 0x01004441
RGSS_MAGIC == <<254, 202, 173, 222>>      \* 0xDEADCAFE

\* magic = magic * 7 + 3 (mod 2^32); the value returned by the code's
\* advanceMagic is the old magic, which the callers here read before the call
advanceMagic(magic) ==
    LET t1 == magic[1] * 7 + 3
        t2 == magic[2] * 7 + (t1 \div 256)
        t3 == magic[3] * 7 + (t2 \div 256)
        t4 == magic[4] * 7 + (t3 \div 256)
    IN  <<t1 % 256, t2 % 256, t3 % 256, t4 % 256>>

\* advanceMagic applied n times
RECURSIVE advanceMagicN(_, _)
advanceMagicN(magic, n) ==
    IF n = 0 THEN magic ELSE advanceMagicN(advanceMagic(magic), n - 1)

(***************************************************************************)
(* The raw PHYSFS_Io of the backing file.  A read past the end delivers    *)
(* fewer bytes and leaves the rest of the caller's buffer as it was: the   *)
(* callers below never initialise their buffers, so those bytes are        *)
(* whatever the stack held (junk, chosen by the caller of the operator).   *)
(***************************************************************************)
JunkWords == {<<0, 0, 0, 0>>, RGSS_HEADER_1, RGSS_HEADER_2}
JunkBytes == {0, 255}

\* how many bytes io->read(io, buf, n) delivers at position pos
ioCount(s, pos, n) == IF pos >= Len(s) THEN 0 ELSE Min(n, Len(s) - pos)

\* readUint32: result is assembled from all four bytes of buff whatever
\* count was; the return value is (count == 4)
readUint32(s, pos, junk) ==
    LET count == ioCount(s, pos, 4)
        buff == [i \in 1..4 |-> IF i <= count THEN s[pos + i] ELSE junk[i]]
    IN  [ok |-> count = 4, result |-> buff, pos |-> pos + count]

(***************************************************************************)
(* RGSS_openArchive: the header check and the entry table loop.            *)
(***************************************************************************)
\* an RGSS_archiveData with nothing in it; also the value of the variable
\* archive while no archive data exists
NoArchive == [entryHash |-> <<>>, dirHash |-> {}]

\* a char buffer read as a C string: the bytes before its first NUL
CStr(buf) ==
    LET z == {i \in 1..Len(buf) : buf[i] = 0}
    IN  IF z = {} THEN buf
        ELSE SubSeq(buf, 1, (CHOOSE i \in z : \A j \in z : i <= j) - 1)

\* a name loop that stores every decrypted byte as it is
RECURSIVE readName_verbatim(_, _, _, _, _, _)
readName_verbatim(s, pos, magic, nameLen, buf, junk) ==
    IF Len(buf) >= nameLen
    THEN [nameBuf |-> buf, pos |-> pos, magic |-> magic]
    ELSE LET count == ioCount(s, pos, 1)
             c == IF count = 1 THEN s[pos + 1] ELSE junk
         IN  readName_verbatim(s, pos + count, advanceMagic(magic), nameLen,
                               Append(buf, Xor8(c, magic[1])), junk)

\* the loop of lines 289-296: one byte read and one advanceMagic per
\* filename byte, the byte XORed with the low 8 bits of the old magic,
\* '\\' stored as '/'
RECURSIVE readName(_, _, _, _, _, _)
readName(s, pos, magic, nameLen, buf, junk) ==
    IF Len(buf) >= nameLen
    THEN [nameBuf |-> buf, pos |-> pos, magic |-> magic]
    ELSE LET count == ioCount(s, pos, 1)
             c == IF count = 1 THEN s[pos + 1] ELSE junk
             d == Xor8(c, magic[1])
             e == IF d = Backslash THEN Slash ELSE d
         IN  readName(s, pos + count, advanceMagic(magic), nameLen,
                      Append(buf, e), junk)

\* the loop of lines 311-317 ("Test for new folder"): i runs from nameLen
\* down to 1 over the NUL-terminated nameBuf (C index i is buf[i + 1]); at
\* each '/' the buffer is cut there and the resulting C string inserted
RECURSIVE newFolders(_, _, _)
newFolders(buf, i, dirHash) ==
    IF i = 0 THEN dirHash
    ELSE IF buf[i + 1] = Slash
         THEN LET cut == [buf EXCEPT ![i + 1] = 0]
              IN  newFolders(cut, i - 1, dirHash \cup {CStr(cut)})
         ELSE newFolders(buf, i - 1, dirHash)

\* QHash::insert: a new key, or the value of an existing key replaced
hashInsert(hash, key, value) ==
    [k \in (DOMAIN hash) \cup {key} |-> IF k = key THEN value ELSE hash[k]]

\* static char nameBuf[512]
NameBufSize == 512

\* nameLen >= sizeof(nameBuf), on the four bytes of the quint32: the stores
\* nameBuf[i] of lines 293-297 then leave the array
tooLong(nameLen) ==
    \/ nameLen[4] > 0
    \/ nameLen[3] > 0
    \/ nameLen[1] + 256 * nameLen[2] >= NameBufSize

\* an entry loop that records the keystream word in use before the
\* entrySize field as the entry's startMagic
RECURSIVE readEntries_staleMagic(_, _, _, _, _)
readEntries_staleMagic(s, pos, magic, data, junk) ==
    LET r == readUint32(s, pos, junk.word)
    IN  IF ~r.ok THEN [data |-> data, pos |-> r.pos, overflow |-> FALSE]
        ELSE IF tooLong(XorWord(r.result, magic))
        THEN [data |-> data, pos |-> r.pos, overflow |-> TRUE]
        ELSE
          LET nameLen == ToNat(XorWord(r.result, magic))
              n == readName(s, r.pos, advanceMagic(magic), nameLen, <<>>,
                            junk.byte)
              nameBuf == Append(n.nameBuf, 0)
              e == readUint32(s, n.pos, junk.word)
              entrySize == ToNat(XorWord(e.result, n.magic))
              entry == [offset |-> e.pos, size |-> entrySize,
                        startMagic |-> n.magic]
              entryHash == hashInsert(data.entryHash, CStr(nameBuf), entry)
              dirHash == newFolders(nameBuf, nameLen, data.dirHash)
          IN  readEntries_staleMagic(s, entry.offset + entry.size,
                          advanceMagic(n.magic),
                          [entryHash |-> entryHash, dirHash |-> dirHash], junk)

\* the while (true) loop of lines 277-320; io->seek(entry.offset +
\* entry.size) positions the raw io for the next iteration.  overflow: an
\* iteration stored beyond nameBuf; what the loop did from there on is not
\* followed
RECURSIVE readEntries(_, _, _, _, _)
readEntries(s, pos, magic, data, junk) ==
    LET r == readUint32(s, pos, junk.word)
    IN  IF ~r.ok THEN [data |-> data, pos |-> r.pos, overflow |-> FALSE]
        ELSE IF tooLong(XorWord(r.result, magic))
        THEN [data |-> data, pos |-> r.pos, overflow |-> TRUE]
        ELSE
          LET nameLen == ToNat(XorWord(r.result, magic))
              n == readName(s, r.pos, advanceMagic(magic), nameLen, <<>>,
                            junk.byte)
              nameBuf == Append(n.nameBuf, 0)
              e == readUint32(s, n.pos, junk.word)
              entrySize == ToNat(XorWord(e.result, n.magic))
              magic2 == advanceMagic(n.magic)
              entry == [offset |-> e.pos, size |-> entrySize,
                        startMagic |-> magic2]
              entryHash == hashInsert(data.entryHash, CStr(nameBuf), entry)
              dirHash == newFolders(nameBuf, nameLen, data.dirHash)
          IN  readEntries(s, entry.offset + entry.size, magic2,
                          [entryHash |-> entryHash, dirHash |-> dirHash], junk)

\* RGSS_openArchive(io, name, forWrite): whether it returns archive data
\* (ok) or 0, the data, and where it leaves the io.  junk.h1, junk.h2: what
\* readUint32's buff held before the two header reads
openArchiveResult(s, forWrite, junk) ==
    IF forWrite
    THEN [ok |-> FALSE, data |-> NoArchive, pos |-> 0, overflow |-> FALSE]
    ELSE
      LET header1 == readUint32(s, 0, junk.h1)
          header2 == readUint32(s, header1.pos, junk.h2)
      IN  IF header1.result # RGSS_HEADER_1 \/ header2.result # RGSS_HEADER_2
          THEN [ok |-> FALSE, data |-> NoArchive, pos |-> header2.pos,
                overflow |-> FALSE]
          ELSE LET p == readEntries(s, header2.pos, RGSS_MAGIC, NoArchive,
                                    junk)
               IN  [ok |-> ~p.overflow,
                    data |-> IF p.overflow THEN NoArchive ELSE p.data,
                    pos |-> p.pos, overflow |-> p.overflow]

(***************************************************************************)
(* Backing files.  A container is the two header words followed by, per    *)
(* entry, the encrypted nameLen, the encrypted name, the encrypted         *)
(* entrySize and the raw (encrypted) payload.                              *)
(***************************************************************************)
RECURSIVE encodeName(_, _)
encodeName(name, magic) ==
    IF name = <<>> THEN <<>>
    ELSE <<Xor8(Head(name), magic[1])>>
             \o encodeName(Tail(name), advanceMagic(magic))

RECURSIVE encodeEntries(_, _)
encodeEntries(files, magic) ==
    IF files = <<>> THEN <<>>
    ELSE LET f == Head(files)
             m1 == advanceMagic(magic)
             m2 == advanceMagicN(m1, Len(f.name))
         IN  XorWord(ToWord(Len(f.name)), magic) \o encodeName(f.name, m1)
               \o XorWord(ToWord(Len(f.raw)), m2) \o f.raw
               \o encodeEntries(Tail(files), advanceMagic(m2))

container(files) ==
    RGSS_HEADER_1 \o RGSS_HEADER_2 \o encodeEntries(files, RGSS_MAGIC)

\* "a\b/c" (5 bytes), stored with a backslash, and "a" (1 byte): "a" is a
\* file and an inferred directory
Files1 ==
    << [name |-> <<97, 92, 98, 47, 99>>, raw |-> <<11, 22, 33, 44, 55>>],
       [name |-> <<97>>, raw |-> <<200>>] >>

\* "g" (empty, and the last entry of the file)
Files2 == << [name |-> <<103>>, raw |-> <<>>] >>

Streams ==
    { container(Files1), container(Files2), container(<<>>),
      <<>>, <<82, 71>>, RGSS_HEADER_1, RGSS_HEADER_1 \o <<65, 68, 0>>,
      RGSS_HEADER_1 \o RGSS_HEADER_1,
      <<82, 71, 83, 84>> \o RGSS_HEADER_2 \o encodeEntries(Files1, RGSS_MAGIC) }

\* "/x" (leading slash), "d/" (trailing slash, empty), "e//f" (two slashes in
\* a row)
Files3 ==
    << [name |-> <<47, 120>>, raw |-> <<1>>],
       [name |-> <<100, 47>>, raw |-> <<>>],
       [name |-> <<101, 47, 47, 102>>, raw |-> <<2, 3>>] >>

\* a stored name with a NUL among its bytes: "h", NUL, "i/j"; and "k"
Files4 ==
    << [name |-> <<104, 0, 105, 47, 106>>, raw |-> <<7>>],
       [name |-> <<107>>, raw |-> <<8, 9>>] >>

\* the first archive cut short inside its second entry: after 0 to 3 bytes
\* of the nameLen field, before and after the name byte, inside the
\* entrySize field, and before the payload
Truncated ==
    LET c == container(Files1)
    IN  {SubSeq(c, 1, n) : n \in (Len(c) - 10)..(Len(c) - 1)}

\* a header followed by four zero bytes: the nameLen field decodes to the
\* seed itself, 0xDEADCAFE
TooLong == RGSS_HEADER_1 \o RGSS_HEADER_2 \o <<0, 0, 0, 0>>

ParseStreams ==
    { container(Files1), container(Files2), container(<<>>),
      container(Files3), container(Files4), TooLong,
      RGSS_HEADER_1 \o RGSS_HEADER_2 \o <<0, 0>> }
        \cup Truncated

(***************************************************************************)
(* RGSS_enumerateFiles.                                                    *)
(***************************************************************************)
\* the loop of lines 349-358: the index of the last '/' of the key, 0 if none
lastSlash(filename) ==
    LET S == {i \in 1..Len(filename) : filename[i] = Slash}
    IN  IF S = {} THEN 0 ELSE CHOOSE i \in S : \A j \in S : j <= i

dirpathOf(filename) ==
    IF lastSlash(filename) = 0 THEN <<>>
    ELSE SubSeq(filename, 1, lastSlash(filename) - 1)

basenameOf(filename) ==
    SubSeq(filename, lastSlash(filename) + 1, Len(filename))

\* keys = entryHash.keys() + dirHash.keys(); cb(basename) is called for each
\* element of that list whose dirpath is dirname.  The result is how often
\* the callback was invoked with each base name.
enumerateFiles(data, dirname) ==
    LET fileHits == {k \in DOMAIN data.entryHash : dirpathOf(k) = dirname}
        dirHits == {k \in data.dirHash : dirpathOf(k) = dirname}
    IN  [b \in {basenameOf(k) : k \in fileHits \cup dirHits} |->
            Cardinality({k \in fileHits : basenameOf(k) = b})
              + Cardinality({k \in dirHits : basenameOf(k) = b})]

(***************************************************************************)
(* RGSS_stat.                                                              *)
(***************************************************************************)
\* the PHYSFS_Stat the caller passes in: no field holds a value RGSS_stat
\* writes
CallerStat ==
    [filesize |-> -1, modtime |-> -1, createtime |-> -1, accesstime |-> -1,
     filetype |-> "OTHER", readonly |-> -1]

\* a lookup that tests the directory set before the file index
stat_dirFirst(data, filename, st) ==
    LET hasFile == filename \in DOMAIN data.entryHash
        hasDir == filename \in data.dirHash
    IN  IF ~hasFile /\ ~hasDir
        THEN [ret |-> 0, err |-> "NOT_FOUND", stat |-> st]
        ELSE [ret |-> 1, err |-> "OK",
              stat |-> [modtime |-> 0, createtime |-> 0, accesstime |-> 0,
                        readonly |-> 1,
                        filesize |-> IF hasDir THEN 0
                                     ELSE data.entryHash[filename].size,
                        filetype |-> IF hasDir THEN "DIRECTORY"
                                     ELSE "REGULAR"]]

\* RGSS_stat(opaque, filename, stat): the value returned, the error code set
\* and the caller's struct afterwards
stat(data, filename, st) ==
    LET hasFile == filename \in DOMAIN data.entryHash
        hasDir == filename \in data.dirHash
    IN  IF ~hasFile /\ ~hasDir
        THEN [ret |-> 0, err |-> "NOT_FOUND", stat |-> st]
        ELSE [ret |-> 1, err |-> "OK",
              stat |-> [modtime |-> 0, createtime |-> 0, accesstime |-> 0,
                        readonly |-> 1,
                        filesize |-> IF hasFile
                                     THEN data.entryHash[filename].size
                                     ELSE 0,
                        filetype |-> IF hasFile THEN "REGULAR"
                                     ELSE "DIRECTORY"]]

(***************************************************************************)
(* The operations the archiver does not support.                           *)
(***************************************************************************)
\* RGSS_noop1(void*, const char*): the PHYSFS_Io* returned for openWrite and
\* openAppend
noop1(opaque, filename) == 0

\* a remove or mkdir that reports success
noop2_done(opaque, filename) == 1

\* RGSS_noop2(void*, const char*): the int returned for remove and mkdir
noop2(opaque, filename) == 0

(***************************************************************************)
(* The entry I/O handle.                                                   *)
(***************************************************************************)
\* the value of an io member that does not point to a PHYSFS_Io
BadIo == 0

\* a constructor that starts every entry at the table's seed
entryHandleNew_seed(data, uninit) ==
    [data |-> data, currentMagic |-> RGSS_MAGIC, currentOffset |-> 0,
     io |-> uninit, open |-> TRUE]

\* RGSS_entryHandle(const RGSS_entryData &): io is not initialised
entryHandleNew(data, uninit) ==
    [data |-> data, currentMagic |-> data.startMagic, currentOffset |-> 0,
     io |-> uninit, open |-> TRUE]

\* a copy constructor that copies the keystream word but not the offset
entryHandleCopy_rewound(other, uninit) ==
    [data |-> other.data, currentMagic |-> other.currentMagic,
     currentOffset |-> 0, io |-> uninit, open |-> TRUE]

\* RGSS_entryHandle(const RGSS_entryHandle &): io is not initialised
entryHandleCopy(other, uninit) ==
    [data |-> other.data, currentMagic |-> other.currentMagic,
     currentOffset |-> other.currentOffset, io |-> uninit, open |-> TRUE]

\* qMin(entry->data.size - entry->currentOffset, len) on quint64: when
\* currentOffset > size the difference wraps to 2^64 - (currentOffset - size),
\* which exceeds every len of the model
toReadOf(entry, len) ==
    IF entry.currentOffset <= entry.data.size
    THEN Min(entry.data.size - entry.currentOffset, len)
    ELSE len

\* the for loop of lines 157-169, from entry offset o up to end
RECURSIVE readLoop(_, _, _, _, _, _, _)
readLoop(s, base, o, end, magic, buffer, junk) ==
    IF o >= end THEN [currentMagic |-> magic, buffer |-> buffer]
    ELSE LET magicByte == magic[(o % 4) + 1]
             byte == IF base + o < Len(s) THEN s[base + o + 1] ELSE junk
         IN  readLoop(s, base, o + 1, end,
                      IF (o + 1) % 4 = 0 THEN advanceMagic(magic) ELSE magic,
                      Append(buffer, Xor8(byte, magicByte)), junk)

\* RGSS_ioRead on a handle whose io is a raw stream over s
ioRead(s, entry, len, junk) ==
    LET toRead == toReadOf(entry, len)
        offs == entry.currentOffset
        r == readLoop(s, entry.data.offset, offs, offs + toRead,
                      entry.currentMagic, <<>>, junk)
        start == entry.data.offset + offs
    IN  [ret |-> toRead, buffer |-> r.buffer,
         entry |-> [entry EXCEPT !.currentMagic = r.currentMagic,
                                 !.currentOffset = offs + toRead],
         ioPos |-> IF start >= Len(s) THEN start
                   ELSE Min(start + toRead, Len(s))]

\* offset > entry->data.size - 1 on quint64: size - 1 wraps to 2^64 - 1 when
\* size is 0, and no offset exceeds that
pastEnd(offset, size) == IF size = 0 THEN FALSE ELSE offset > size - 1

\* RGSS_ioSeek up to the call of entry->io->seek: the value returned, the
\* handle afterwards, and whether the raw io was repositioned
ioSeek(entry, offset) ==
    IF offset = entry.currentOffset
    THEN [ret |-> 1, entry |-> entry, moved |-> FALSE]
    ELSE IF pastEnd(offset, entry.data.size)
    THEN [ret |-> 0, entry |-> entry, moved |-> FALSE]
    ELSE LET rewound ==
                 IF offset < entry.currentOffset
                 THEN [entry EXCEPT !.currentOffset = 0,
                                    !.currentMagic = entry.data.startMagic]
                 ELSE entry
             dwordsSought == (offset - rewound.currentOffset) \div 4
         IN  [ret |-> 1,
              entry |-> [rewound EXCEPT
                           !.currentMagic = advanceMagicN(rewound.currentMagic,
                                                          dwordsSought),
                           !.currentOffset = offset],
              moved |-> TRUE]

(***************************************************************************)
(* The state machine.                                                      *)
(***************************************************************************)
\* what is left of an RGSS_entryHandle after delete: nothing the program
\* may read
Deleted ==
    [data |-> [offset |-> 0, size |-> 0, startMagic |-> RGSS_MAGIC],
     currentMagic |-> RGSS_MAGIC, currentOffset |-> 0, io |-> BadIo,
     open |-> FALSE]

\* no FileStream object and no PHYSFS_File handle exists
NoStreams == [objs |-> <<>>, files |-> <<>>]

\* a thread that is not inside RGSS_ioRead
Idle ==
    [pc |-> "idle", len |-> 0, o |-> 0, end |-> 0, buffer |-> <<>>,
     before |-> Deleted]

Init ==
    /\ stream \in Streams
    /\ archivePos = 0
    /\ mount = "none"
    /\ archive = NoArchive
    /\ handles = <<>>
    /\ ios = <<>>
    /\ crashed = FALSE
    /\ physfs = {}
    /\ threads = [t \in 1..MaxHandles |-> Idle]
    /\ fileStreams = NoStreams
    /\ last = [op |-> "init"]

\* the paths and directory names the host passes in
Paths == (DOMAIN archive.entryHash) \cup archive.dirHash \cup {<<>>, <<120>>}

OpenHandles == {h \in 1..Len(handles) : handles[h].open}

\* PhysFS hands the backing file's io to RGSS_openArchive.  A store beyond
\* nameBuf is outside the array: for the name lengths of the model's streams
\* (above 2^31) the loop of lines 289-296 runs off the process's memory in
\* every build, and the process ends inside the call
OpenArchive ==
    /\ mount = "none"
    /\ \E forWrite \in BOOLEAN, h1 \in JunkWords, h2 \in JunkWords,
          w \in JunkWords, b \in JunkBytes :
         LET r == openArchiveResult(stream, forWrite,
                     [h1 |-> h1, h2 |-> h2, word |-> w, byte |-> b])
         IN  /\ mount' = IF r.ok THEN "mounted"
                         ELSE IF r.overflow THEN "crashed" ELSE "declined"
             /\ archive' = r.data
             /\ archivePos' = r.pos
             /\ crashed' = r.overflow
             /\ last' = [op |-> "openArchive", forWrite |-> forWrite,
                         ok |-> r.ok]
    /\ UNCHANGED <<fileStreams, stream, handles, ios, physfs, threads>>

EnumerateFiles ==
    /\ mount = "mounted" /\ ~crashed
    /\ \E dirname \in Paths :
         last' = [op |-> "enumerate", dirname |-> dirname,
                  calls |-> enumerateFiles(archive, dirname)]
    /\ UNCHANGED <<fileStreams, stream, archivePos, mount, archive, handles,
                   ios, crashed, physfs, threads>>

\* RGSS_stat(opaque, filename, stat)
Stat ==
    /\ mount = "mounted" /\ ~crashed
    /\ \E filename \in Paths :
         LET r == stat(archive, filename, CallerStat)
         IN  last' = [op |-> "stat", filename |-> filename, ret |-> r.ret,
                      err |-> r.err, stat |-> r.stat]
    /\ UNCHANGED <<fileStreams, stream, archivePos, mount, archive, handles,
                   ios, crashed, physfs, threads>>

\* RGSS_Archiver.openWrite and .openAppend
Noop1 ==
    /\ mount = "mounted" /\ ~crashed
    /\ \E op \in {"openWrite", "openAppend"}, filename \in Paths :
         last' = [op |-> op, filename |-> filename,
                  ret |-> noop1(archive, filename)]
    /\ UNCHANGED <<fileStreams, stream, archivePos, mount, archive, handles,
                   ios, crashed, physfs, threads>>

\* RGSS_Archiver.remove and .mkdir
Noop2 ==
    /\ mount = "mounted" /\ ~crashed
    /\ \E op \in {"remove", "mkdir"}, filename \in Paths :
         last' = [op |-> op, filename |-> filename,
                  ret |-> noop2(archive, filename)]
    /\ UNCHANGED <<fileStreams, stream, archivePos, mount, archive, handles,
                   ios, crashed, physfs, threads>>

\* RGSS_openRead: 0 when the path is no key of entryHash; else a new handle
\* whose io is archiveIo->duplicate(archiveIo), a new raw stream at position 0
OpenRead ==
    /\ mount = "mounted" /\ ~crashed
    /\ \E filename \in Paths :
         IF filename \notin DOMAIN archive.entryHash
         THEN /\ last' = [op |-> "openRead", filename |-> filename, ret |-> 0]
              /\ UNCHANGED <<handles, ios>>
         ELSE /\ Len(handles) < MaxHandles
              /\ ios' = Append(ios, 0)
              /\ handles' = Append(handles,
                    [entryHandleNew(archive.entryHash[filename], BadIo)
                        EXCEPT !.io = Len(ios) + 1])
              /\ last' = [op |-> "openRead", filename |-> filename,
                          ret |-> Len(handles) + 1]
    /\ UNCHANGED <<fileStreams, stream, archivePos, mount, archive, crashed,
                   physfs, threads>>

\* RGSS_ioRead(self, buffer, len); entry->io->seek on an invalid io pointer
\* ends the process
IoRead ==
    /\ ~crashed
    /\ \E h \in OpenHandles, len \in 0..MaxLen, junk \in JunkBytes :
         /\ \/ handles[h].currentOffset <= handles[h].data.size
            \/ handles[h].currentOffset + len <= MaxOffset
         /\ IF handles[h].io = BadIo
            THEN /\ crashed' = TRUE
                 /\ last' = [op |-> "crash", h |-> h]
                 /\ UNCHANGED <<handles, ios>>
            ELSE LET r == ioRead(stream, handles[h], len, junk)
                 IN  /\ handles' = [handles EXCEPT ![h] = r.entry]
                     /\ ios' = [ios EXCEPT ![handles[h].io] = r.ioPos]
                     /\ last' = [op |-> "read", h |-> h, len |-> len,
                                 ret |-> r.ret, buffer |-> r.buffer,
                                 before |-> handles[h]]
                     /\ UNCHANGED crashed
    /\ UNCHANGED <<fileStreams, stream, archivePos, mount, archive, physfs,
                   threads>>

\* RGSS_ioSeek(self, offset)
IoSeek ==
    /\ ~crashed
    /\ \E h \in OpenHandles, offset \in 0..MaxOffset :
         LET r == ioSeek(handles[h], offset)
         IN  /\ handles' = [handles EXCEPT ![h] = r.entry]
             /\ IF r.moved /\ handles[h].io = BadIo
                THEN /\ crashed' = TRUE
                     /\ last' = [op |-> "crash", h |-> h]
                     /\ UNCHANGED ios
                ELSE /\ ios' = IF r.moved
                               THEN [ios EXCEPT ![handles[h].io] =
                                        r.entry.data.offset + offset]
                               ELSE ios
                     /\ last' = [op |-> "seek", h |-> h, offset |-> offset,
                                 ret |-> r.ret, before |-> handles[h]]
                     /\ UNCHANGED crashed
    /\ UNCHANGED <<fileStreams, stream, archivePos, mount, archive, physfs,
                   threads>>

\* RGSS_ioDuplicate(self): new RGSS_entryHandle(*entry); nothing assigns the
\* copy's io, which holds whatever the allocation held: no valid pointer, or
\* the address of a raw stream that exists
IoDuplicate ==
    /\ ~crashed
    /\ Len(handles) < MaxHandles
    /\ \E h \in OpenHandles, uninit \in {BadIo} \cup (1..Len(ios)) :
         /\ handles' = Append(handles, entryHandleCopy(handles[h], uninit))
         /\ last' = [op |-> "duplicate", h |-> h, ret |-> Len(handles) + 1]
    /\ UNCHANGED <<fileStreams, stream, archivePos, mount, archive, ios,
                   crashed, physfs, threads>>

\* a destroy that also deletes the archive data its handle was opened from
IoDestroy_deletesData ==
    /\ ~crashed
    /\ \E h \in OpenHandles :
         /\ handles' = [handles EXCEPT ![h] = Deleted]
         /\ archive' = NoArchive
         /\ last' = [op |-> "destroy", h |-> h]
    /\ UNCHANGED <<fileStreams, stream, archivePos, mount, ios, crashed,
                   physfs, threads>>

\* RGSS_ioDestroy(self): delete entry (entry->io is not destroyed)
IoDestroy ==
    /\ ~crashed
    /\ \E h \in OpenHandles :
         /\ handles' = [handles EXCEPT ![h] = Deleted]
         /\ last' = [op |-> "destroy", h |-> h]
    /\ UNCHANGED <<fileStreams, stream, archivePos, mount, archive, ios,
                   crashed, physfs, threads>>

\* RGSS_closeArchive(opaque): delete data.  PhysFS unmounts an archive only
\* when none of its files is open
CloseArchive ==
    /\ mount = "mounted" /\ ~crashed
    /\ OpenHandles = {}
    /\ mount' = "closed"
    /\ archive' = NoArchive
    /\ last' = [op |-> "closeArchive"]
    /\ UNCHANGED <<fileStreams, stream, archivePos, handles, ios, crashed,
                   physfs, threads>>

Next ==
    \/ OpenArchive
    \/ EnumerateFiles
    \/ Stat
    \/ OpenRead
    \/ IoRead
    \/ IoSeek
    \/ IoDuplicate
    \/ IoDestroy
    \/ CloseArchive

Spec == Init /\ [][Next]_vars

(***************************************************************************)
(* The parser on more backing files, and the archiver operations on the    *)
(* index of each (handles are opened, none is read from).                  *)
(***************************************************************************)
InitParse ==
    /\ stream \in ParseStreams
    /\ archivePos = 0
    /\ mount = "none"
    /\ archive = NoArchive
    /\ handles = <<>>
    /\ ios = <<>>
    /\ crashed = FALSE
    /\ physfs = {}
    /\ threads = [t \in 1..MaxHandles |-> Idle]
    /\ fileStreams = NoStreams
    /\ last = [op |-> "init"]

NextParse ==
    \/ OpenArchive
    \/ EnumerateFiles
    \/ Stat
    \/ Noop1
    \/ Noop2
    \/ OpenRead

SpecParse == InitParse /\ [][NextParse]_vars

(***************************************************************************)
(* Two entry handles of one archive, each driven by a thread of its own.   *)
(* RGSS_ioRead is taken apart at its calls of entry->io: the seek before   *)
(* the loop and the one-byte read of each iteration.  Everything else it   *)
(* touches belongs to its own handle.  RGSS_ioSeek calls entry->io once.   *)
(***************************************************************************)
InitThreads ==
    LET r == openArchiveResult(container(Files1), FALSE,
                 [h1 |-> RGSS_HEADER_1, h2 |-> RGSS_HEADER_2,
                  word |-> RGSS_HEADER_1, byte |-> 0])
    IN  /\ stream = container(Files1)
        /\ archivePos = r.pos
        /\ mount = "mounted"
        /\ archive = r.data
        /\ handles = <<>>
        /\ ios = <<>>
        /\ crashed = FALSE
        /\ physfs = {}
        /\ threads = [t \in 1..MaxHandles |-> Idle]
        /\ fileStreams = NoStreams
        /\ last = [op |-> "openArchive", forWrite |-> FALSE, ok |-> TRUE]

\* the threads run once both handles exist
Running == {t \in OpenHandles : Len(handles) = MaxHandles /\ ~crashed}

\* lines 151-154: toRead, offs, and entry->io->seek(data.offset + offs)
ReadBegin ==
    /\ \E t \in Running, len \in 1..MaxLen :
         /\ threads[t].pc = "idle"
         /\ IF handles[t].io = BadIo
            THEN /\ crashed' = TRUE
                 /\ last' = [op |-> "crash", h |-> t]
                 /\ UNCHANGED <<ios, threads>>
            ELSE LET offs == handles[t].currentOffset
                 IN  /\ ios' = [ios EXCEPT ![handles[t].io] =
                                   handles[t].data.offset + offs]
                     /\ threads' = [threads EXCEPT ![t] =
                            [pc |-> "loop", len |-> len, o |-> offs,
                             end |-> offs + toReadOf(handles[t], len),
                             buffer |-> <<>>, before |-> handles[t]]]
                     /\ last' = [op |-> "readBegin", h |-> t]
                     /\ UNCHANGED crashed
    /\ UNCHANGED <<fileStreams, stream, archivePos, mount, archive, handles,
                   physfs>>

\* one iteration of the loop of lines 157-169: magicByte from
\* entry->currentMagic, entry->io->read(&byte, 1), the store into buffer,
\* and advanceMagic(entry->currentMagic) when ++o % 4 == 0
ReadByte ==
    /\ \E t \in Running, junk \in JunkBytes :
         LET th == threads[t]
             io == handles[t].io
             count == ioCount(stream, ios[io], 1)
             byte == IF count = 1 THEN stream[ios[io] + 1] ELSE junk
             magicByte == handles[t].currentMagic[(th.o % 4) + 1]
         IN  /\ th.pc = "loop" /\ th.o < th.end
             /\ ios' = [ios EXCEPT ![io] = ios[io] + count]
             /\ threads' = [threads EXCEPT
                              ![t].o = th.o + 1,
                              ![t].buffer = Append(th.buffer,
                                                   Xor8(byte, magicByte))]
             /\ handles' = [handles EXCEPT ![t].currentMagic =
                               IF (th.o + 1) % 4 = 0
                               THEN advanceMagic(handles[t].currentMagic)
                               ELSE handles[t].currentMagic]
             /\ last' = [op |-> "readByte", h |-> t]
    /\ UNCHANGED <<fileStreams, stream, archivePos, mount, archive, crashed,
                   physfs>>

\* lines 171-173: entry->currentOffset += toRead; return toRead
ReadEnd ==
    /\ \E t \in Running :
         LET th == threads[t]
             toRead == th.end - handles[t].currentOffset
         IN  /\ th.pc = "loop" /\ th.o >= th.end
             /\ handles' = [handles EXCEPT ![t].currentOffset =
                               handles[t].currentOffset + toRead]
             /\ threads' = [threads EXCEPT ![t] = Idle]
             /\ last' = [op |-> "read", h |-> t, len |-> th.len,
                         ret |-> toRead, buffer |-> th.buffer,
                         before |-> th.before]
    /\ UNCHANGED <<fileStreams, stream, archivePos, mount, archive, ios,
                   crashed, physfs>>

\* RGSS_ioSeek(self, offset) by the handle's thread
ThreadSeek ==
    /\ \E t \in Running, offset \in 0..MaxOffset :
         LET r == ioSeek(handles[t], offset)
         IN  /\ threads[t].pc = "idle"
             /\ handles' = [handles EXCEPT ![t] = r.entry]
             /\ IF r.moved /\ handles[t].io = BadIo
                THEN /\ crashed' = TRUE
                     /\ last' = [op |-> "crash", h |-> t]
                     /\ UNCHANGED ios
                ELSE /\ ios' = IF r.moved
                               THEN [ios EXCEPT ![handles[t].io] =
                                        r.entry.data.offset + offset]
                               ELSE ios
                     /\ last' = [op |-> "seek", h |-> t, offset |-> offset,
                                 ret |-> r.ret, before |-> handles[t]]
                     /\ UNCHANGED crashed
    /\ UNCHANGED <<fileStreams, stream, archivePos, mount, archive, physfs,
                   threads>>

NextThreads ==
    \/ OpenRead
    \/ IoDuplicate
    \/ ThreadSeek
    \/ ReadBegin
    \/ ReadByte
    \/ ReadEnd

SpecThreads == InitThreads /\ [][NextThreads]_vars

(***************************************************************************)
(* The FileSystem facade: name resolution with extension fallback.         *)
(* PHYSFS_exists is the library's; the model keeps the set of names for    *)
(* which it answers true.                                                  *)
(***************************************************************************)
Dot == 46
BuffSize == 1024

imgExt == << <<106, 112, 103>>, <<112, 110, 103>> >>     \* "jpg", "png"

audExt ==
    << <<109, 112, 51>>, <<111, 103, 103>>,              \* "mp3", "ogg"
       <<119, 97, 118>>, <<119, 109, 97>> >>             \* "wav", "wma"

fonExt == << <<116, 116, 102>> >>                        \* "ttf"

\* FileSystem::FileType
FileType == {"Image", "Audio", "Font", "Undefined"}

\* fileExtensions[type] for a type other than Undefined
fileExtensions == [Image |-> imgExt, Audio |-> audExt, Font |-> fonExt]

\* snprintf(buff, size, "%s.%s", filename, ext): at most size - 1 characters
\* are stored
snprintf(size, filename, ext) ==
    LET full == filename \o <<Dot>> \o ext
    IN  IF Len(full) < size THEN full ELSE SubSeq(full, 1, size - 1)

\* completeFileName(filename, type) with PHYSFS_exists answering from fs:
\* whether a name is returned (found), and the name
completeFileName(fs, filename, type) ==
    IF filename \in fs THEN [found |-> TRUE, name |-> filename]
    ELSE IF type # "Undefined"
    THEN LET ext == fileExtensions[type]
             hits == {i \in 1..Len(ext) :
                         snprintf(BuffSize, filename, ext[i]) \in fs}
         IN  IF hits = {} THEN [found |-> FALSE, name |-> <<>>]
             ELSE LET i == CHOOSE k \in hits : \A j \in hits : k <= j
                  IN  [found |-> TRUE,
                       name |-> snprintf(BuffSize, filename, ext[i])]
    ELSE [found |-> FALSE, name |-> <<>>]

\* openReadInt(filename, type): the exception thrown (and the name in its
\* message), or the name passed to PHYSFS_openRead; opens: whether
\* PHYSFS_openRead returns a handle
openReadInt(fs, filename, type, opens) ==
    LET foundName == completeFileName(fs, filename, type)
    IN  IF ~foundName.found
        THEN [exc |-> "NoFileError", arg |-> filename, opened |-> <<>>]
        ELSE IF ~opens
        THEN [exc |-> "PHYSFSError", arg |-> <<>>, opened |-> <<>>]
        ELSE [exc |-> "none", arg |-> <<>>, opened |-> foundName.name]

\* FileSystem::exists(filename, type)
exists(fs, filename, type) == completeFileName(fs, filename, type).found

\* a path of BuffSize - 4 characters: with a three-letter extension it needs
\* one character more than buff stores
LongName == [i \in 1..(BuffSize - 4) |-> IF i % 128 = 0 THEN Slash ELSE 120]

\* the directories the host mounts, each as the set of its file names:
\* "t.png"; "t"; "t.jpg", "t.ogg"; "t.wma", "t.ttf"; LongName + ".jp"
Roots ==
    { {<<116, 46, 112, 110, 103>>},
      {<<116>>},
      {<<116, 46, 106, 112, 103>>, <<116, 46, 111, 103, 103>>},
      {<<116, 46, 119, 109, 97>>, <<116, 46, 116, 116, 102>>},
      {LongName \o <<46, 106, 112>>} }

\* the names the host asks for: "t", "u", "t.png", LongName
Names == {<<116>>, <<117>>, <<116, 46, 112, 110, 103>>, LongName}

InitFacade ==
    /\ stream = <<>>
    /\ archivePos = 0
    /\ mount = "none"
    /\ archive = NoArchive
    /\ handles = <<>>
    /\ ios = <<>>
    /\ crashed = FALSE
    /\ physfs = {}
    /\ threads = [t \in 1..MaxHandles |-> Idle]
    /\ fileStreams = NoStreams
    /\ last = [op |-> "init"]

\* FileSystem::addPath(path): PHYSFS_mount appends the root to the search
\* path
AddPath ==
    /\ \E root \in Roots :
         /\ physfs' = physfs \cup root
         /\ last' = [op |-> "addPath"]
    /\ UNCHANGED <<fileStreams, stream, archivePos, mount, archive, handles,
                   ios, crashed, threads>>

\* FileSystem::exists(filename, type)
Exists ==
    /\ \E filename \in Names, type \in FileType :
         last' = [op |-> "exists", filename |-> filename, type |-> type,
                  ret |-> exists(physfs, filename, type)]
    /\ UNCHANGED <<fileStreams, stream, archivePos, mount, archive, handles,
                   ios, crashed, physfs, threads>>

\* FileSystem::openRead(filename, type)
FsOpenRead ==
    /\ \E filename \in Names, type \in FileType, opens \in BOOLEAN :
         LET r == openReadInt(physfs, filename, type, opens)
         IN  last' = [op |-> "fsOpenRead", filename |-> filename,
                      type |-> type, exc |-> r.exc, arg |-> r.arg,
                      opened |-> r.opened]
    /\ UNCHANGED <<fileStreams, stream, archivePos, mount, archive, handles,
                   ios, crashed, physfs, threads>>

NextFacade ==
    \/ AddPath
    \/ Exists
    \/ FsOpenRead

SpecFacade == InitFacade /\ [][NextFacade]_vars

(***************************************************************************)
(* FileStream: an object holding a PHYSFS_File pointer p.  The variable    *)
(* fileStreams keeps the objects (objs: object -> p) and, per PHYSFS_File  *)
(* handle PHYSFS_openRead has returned, how many PHYSFS_close calls it has *)
(* received (files).  A handle is freed by its first PHYSFS_close; what    *)
(* the library does with a freed handle is undefined: the call returns any *)
(* of its values, or the process ends.                                     *)
(***************************************************************************)
MaxStreams == 3     \* FileStream objects constructed in one run
MaxFiles == 2       \* PHYSFS_File handles opened in one run
MaxCloses == 2      \* PHYSFS_close calls followed per handle

\* a null PHYSFS_File pointer
NullFile == 0

\* what PHYSFS_readBytes, PHYSFS_seek, PHYSFS_tell, PHYSFS_fileLength and
\* PHYSFS_writeBytes may return
BackendResults == {-1, 0, 1}

Methods == {"read", "seek", "tell", "getSize", "write"}

\* FileStream::read, seek, tell, getSize, write on an object with pointer p:
\* the value returned and the pointer passed to the library (NullFile: no
\* call)
streamCall(p, method, arg, backend) ==
    IF p = NullFile THEN [ret |-> -1, passed |-> NullFile]
    ELSE [ret |-> IF method = "seek"
                  THEN (IF backend # 0 THEN arg ELSE -1)
                  ELSE backend,
          passed |-> p]

\* FileStream::close on an object with pointer p: the pointer passed to
\* PHYSFS_close (NullFile: no call) and p afterwards
streamClose(p) == [passed |-> p, p |-> NullFile]

InitStream ==
    /\ stream = <<>>
    /\ archivePos = 0
    /\ mount = "none"
    /\ archive = NoArchive
    /\ handles = <<>>
    /\ ios = <<>>
    /\ crashed = FALSE
    /\ physfs = {}
    /\ threads = [t \in 1..MaxHandles |-> Idle]
    /\ fileStreams = NoStreams
    /\ last = [op |-> "init"]

Objects == 1..Len(fileStreams.objs)

\* the handle has been closed before
closedFile(f) == f # NullFile /\ fileStreams.files[f] > 0

\* FileSystem::openRead returning FileStream(handle) for a new handle, and
\* FileStream::FileStream(file) with a null pointer
StreamOpen ==
    /\ ~crashed
    /\ Len(fileStreams.objs) < MaxStreams
    /\ \E null \in BOOLEAN :
         IF null
         THEN /\ fileStreams' = [fileStreams EXCEPT
                                   !.objs = Append(@, NullFile)]
              /\ last' = [op |-> "construct", s |-> Len(fileStreams.objs) + 1,
                          p |-> NullFile]
         ELSE /\ Len(fileStreams.files) < MaxFiles
              /\ fileStreams' =
                     [objs |-> Append(fileStreams.objs,
                                      Len(fileStreams.files) + 1),
                      files |-> Append(fileStreams.files, 0)]
              /\ last' = [op |-> "openRead", s |-> Len(fileStreams.objs) + 1,
                          p |-> Len(fileStreams.files) + 1]
    /\ UNCHANGED <<stream, archivePos, mount, archive, handles, ios, crashed,
                   physfs, threads>>

\* the implicit copy constructor FileStream(const FileStream &o): p = o.p
StreamCopy ==
    /\ ~crashed
    /\ Len(fileStreams.objs) < MaxStreams
    /\ \E o \in Objects :
         /\ fileStreams' = [fileStreams EXCEPT
                              !.objs = Append(@, fileStreams.objs[o])]
         /\ last' = [op |-> "copy", s |-> Len(fileStreams.objs) + 1,
                     o |-> o]
    /\ UNCHANGED <<stream, archivePos, mount, archive, handles, ios, crashed,
                   physfs, threads>>

\* FileStream::operator=(const FileStream &o): p = o.p
StreamAssign ==
    /\ ~crashed
    /\ \E s \in Objects, o \in Objects :
         /\ fileStreams' = [fileStreams EXCEPT
                              !.objs[s] = fileStreams.objs[o]]
         /\ last' = [op |-> "assign", s |-> s, o |-> o]
    /\ UNCHANGED <<stream, archivePos, mount, archive, handles, ios, crashed,
                   physfs, threads>>

\* FileStream::read / seek / tell / getSize / write
StreamCall ==
    /\ ~crashed
    /\ \E s \in Objects, method \in Methods, arg \in {0, 1},
          backend \in BackendResults, dies \in BOOLEAN :
         LET p == fileStreams.objs[s]
             r == streamCall(p, method, arg, backend)
         IN  /\ dies => closedFile(r.passed)
             /\ r.passed = NullFile => backend = -1
             /\ method # "seek" => arg = 0
             /\ crashed' = dies
             /\ last' = [op |-> method, s |-> s, p |-> p, ret |-> r.ret,
                         passed |-> r.passed,
                         wasClosed |-> closedFile(r.passed)]
    /\ UNCHANGED <<stream, archivePos, mount, archive, handles, ios, physfs,
                   threads, fileStreams>>

\* FileStream::close
StreamClose ==
    /\ ~crashed
    /\ \E s \in Objects, dies \in BOOLEAN :
         LET p == fileStreams.objs[s]
             r == streamClose(p)
         IN  /\ r.passed # NullFile =>
                    fileStreams.files[r.passed] < MaxCloses
             /\ dies => closedFile(r.passed)
             /\ crashed' = dies
             /\ fileStreams' =
                    [objs |-> [fileStreams.objs EXCEPT ![s] = r.p],
                     files |-> IF r.passed = NullFile THEN fileStreams.files
                               ELSE [fileStreams.files EXCEPT
                                        ![r.passed] = @ + 1]]
             /\ last' = [op |-> "close", s |-> s, p |-> p,
                         passed |-> r.passed,
                         wasClosed |-> closedFile(r.passed)]
    /\ UNCHANGED <<stream, archivePos, mount, archive, handles, ios, physfs,
                   threads>>

NextStream ==
    \/ StreamOpen
    \/ StreamCopy
    \/ StreamAssign
    \/ StreamCall
    \/ StreamClose

SpecStream == InitStream /\ [][NextStream]_vars

(***************************************************************************)
(* Properties of the entry I/O handle.                                     *)
(***************************************************************************)
\* the keystream word that belongs to entry offset o
wordAt(data, o) == advanceMagicN(data.startMagic, o \div 4)

\* C1: for every open entry handle, after any reads, seeks and duplications,
\* currentMagic is startMagic advanced exactly floor(currentOffset / 4)
\* times.
C1_MagicInvariant ==
    \A h \in OpenHandles :
        handles[h].currentMagic
            = wordAt(handles[h].data, handles[h].currentOffset)

\* what a freshly opened handle of the entry returns for [o, o + n): it
\* reads o + n bytes from the start and the first o are dropped
freshRange(data, o, n) ==
    LET r == ioRead(stream, entryHandleNew(data, BadIo), o + n, 0)
    IN  SubSeq(r.buffer, o + 1, Len(r.buffer))

\* C2: a handle at any o1 in [0, size) that seeks to o2 in [0, size) and then
\* reads n bytes returns the bytes a freshly opened handle of the same entry
\* returns for [o2, o2 + n).
C2_SeekThenRead ==
    [][(/\ last.op = "seek" /\ last.ret = 1
        /\ last.before.currentOffset < last.before.data.size
        /\ last.offset < last.before.data.size
        /\ last'.op = "read" /\ last'.h = last.h)
       => last'.buffer = freshRange(last.before.data, last.offset, last'.len)
      ]_vars

\* the first half of C3: a read of len bytes split in two at any point gives
\* the same bytes and the same cursor as the one read
C3_Granularity ==
    last.op = "read" =>
        \A k \in 0..last.len : \A junk \in JunkBytes :
            LET whole == ioRead(stream, last.before, last.len, junk)
                r1 == ioRead(stream, last.before, k, junk)
                r2 == ioRead(stream, r1.entry, last.len - k, junk)
            IN  /\ r1.buffer \o r2.buffer = whole.buffer
                /\ r1.ret + r2.ret = whole.ret
                /\ r2.entry = whole.entry

\* the second half of C3: the byte returned for entry offset o is
\* raw[o] XOR ((word_k >> 8 * (o mod 4)) & 0xFF), word_k being startMagic
\* advanced k = floor(o / 4) times
C3_ByteFormula ==
    (last.op = "read"
        /\ last.before.currentOffset + last.ret <= last.before.data.size) =>
        \A i \in 1..Len(last.buffer) :
            LET o == last.before.currentOffset + i - 1
            IN  last.buffer[i]
                  = Xor8(stream[last.before.data.offset + o + 1],
                         wordAt(last.before.data, o)[(o % 4) + 1])

\* C3: read granularity does not matter, and the byte at entry offset o is
\* always raw[o] XOR the mask byte of the word for block floor(o / 4).
C3_ReadDeterminism == C3_Granularity /\ C3_ByteFormula

\* C4: after duplicate() the new handle has a raw source of its own: a valid
\* stream that no other handle (the original included) uses.
C4_DuplicateOwnSource ==
    last.op = "duplicate" =>
        /\ handles[last.ret].io # BadIo
        /\ \A g \in 1..Len(handles) :
               g # last.ret => handles[g].io # handles[last.ret].io

\* C5: a duplicate starts with the original's metadata, currentOffset and
\* currentMagic, and a read or seek on one handle leaves the currentOffset
\* and currentMagic of every other handle unchanged.
C5_DuplicateIndependence ==
    [][/\ last'.op = "duplicate" /\ Len(handles') = Len(handles) + 1 =>
            /\ last'.ret = Len(handles')
            /\ handles'[last'.ret].data = handles[last'.h].data
            /\ handles'[last'.ret].currentOffset
                   = handles[last'.h].currentOffset
            /\ handles'[last'.ret].currentMagic
                   = handles[last'.h].currentMagic
            /\ handles'[last'.h] = handles[last'.h]
       /\ last'.op \in {"read", "seek", "crash"} =>
            \A g \in 1..Len(handles) :
                g # last'.h =>
                    /\ handles'[g].currentOffset = handles[g].currentOffset
                    /\ handles'[g].currentMagic = handles[g].currentMagic
      ]_vars

\* a duplicate (it shares handle 1's raw stream) has been read from and the
\* two cursors have moved apart
C5_Witness ==
    /\ Len(handles) = 2
    /\ handles[2].io = handles[1].io
    /\ last.op = "read" /\ last.h = 2 /\ last.ret > 0
    /\ handles[1].currentOffset # handles[2].currentOffset

\* C6: seek(target) with target # currentOffset fails for every
\* target >= size, whatever the size (0 included), and leaves the handle as it
\* was; seek(currentOffset) changes nothing.
C6_SeekPastEnd ==
    last.op = "seek" =>
        /\ (last.offset # last.before.currentOffset
               /\ last.offset >= last.before.data.size)
             => last.ret = 0 /\ handles[last.h] = last.before
        /\ last.offset = last.before.currentOffset
             => handles[last.h] = last.before

\* C7: read(n) returns min(n, size - currentOffset) and advances
\* currentOffset by that amount; at the end of the entry it returns 0 and
\* changes neither currentOffset nor currentMagic.  (A count cannot be
\* negative: for a cursor beyond the end, size - currentOffset is read as "no
\* bytes remain".)
C7_ReadClamp ==
    last.op = "read" =>
        /\ last.ret = Min(last.len,
                          IF last.before.currentOffset <= last.before.data.size
                          THEN last.before.data.size
                                 - last.before.currentOffset
                          ELSE 0)
        /\ handles[last.h].currentOffset
               = last.before.currentOffset + last.ret
        /\ last.before.currentOffset = last.before.data.size
             => last.ret = 0 /\ handles[last.h] = last.before

(***************************************************************************)
(* Properties of the archiver operations.                                  *)
(***************************************************************************)
\* C8: enumerate(dirPath) invokes the callback exactly once for each entry
\* (file or inferred directory) whose parent path equals dirPath, with its
\* base name, and for nothing else; a name that is both a file and a
\* directory is not reported twice.
C8_EnumerateOnce ==
    last.op = "enumerate" =>
        LET entries == (DOMAIN archive.entryHash) \cup archive.dirHash
            children == {e \in entries : dirpathOf(e) = last.dirname}
        IN  /\ DOMAIN last.calls = {basenameOf(e) : e \in children}
            /\ \A b \in DOMAIN last.calls : last.calls[b] = 1

\* the first 8 bytes of the stream are the two header constants
headerMatches(s) ==
    /\ Len(s) >= 8
    /\ SubSeq(s, 1, 4) = RGSS_HEADER_1
    /\ SubSeq(s, 5, 8) = RGSS_HEADER_2

\* C9: openArchive declines when forWrite is set, without reading from the
\* stream, and when the first 8 bytes of the stream are not the two header
\* constants (streams shorter than 8 bytes included); no index is built then.
C9_Decline ==
    /\ mount = "mounted" => headerMatches(stream)
    /\ last.op = "openArchive" =>
         /\ last.forWrite =>
                ~last.ok /\ archivePos = 0 /\ archive = NoArchive
         /\ ~headerMatches(stream) => ~last.ok /\ archive = NoArchive

\* C10: openRead fails for every path that is no key of the file index (a
\* path that is only a directory included) and creates nothing; for a key it
\* returns a new handle at currentOffset 0 and the entry's startMagic, with a
\* raw stream duplicate that no other handle uses, whatever the other
\* handles have done.
C10_OpenRead ==
    [][last'.op = "openRead" /\ last' # last =>
         IF last'.filename \in DOMAIN archive.entryHash
         THEN /\ last'.ret = Len(handles) + 1
              /\ Len(handles') = Len(handles) + 1
              /\ \A g \in 1..Len(handles) : handles'[g] = handles[g]
              /\ handles'[last'.ret].open
              /\ handles'[last'.ret].data = archive.entryHash[last'.filename]
              /\ handles'[last'.ret].currentOffset = 0
              /\ handles'[last'.ret].currentMagic
                     = archive.entryHash[last'.filename].startMagic
              /\ handles'[last'.ret].io \in (1..Len(ios')) \ (1..Len(ios))
              /\ \A g \in 1..Len(handles) :
                     handles[g].io # handles'[last'.ret].io
              /\ ios'[handles'[last'.ret].io] = 0
              /\ \A i \in 1..Len(ios) : ios'[i] = ios[i]
         ELSE last'.ret = 0 /\ handles' = handles /\ ios' = ios
      ]_vars

\* a second handle of an entry has just been opened while the first handle
\* of the same entry has moved away from offset 0
C10_Witness ==
    /\ last.op = "openRead" /\ last.ret = 2
    /\ handles[1].data = handles[2].data
    /\ handles[1].open /\ handles[1].currentOffset > 0
    /\ handles[2].currentOffset = 0

\* C11: stat fails with not-found exactly when the path is in neither the
\* file index nor the directory set; otherwise readonly is true and the three
\* timestamps are 0, a path of the file index is a file of the entry's size,
\* and a directory (of size 0) is reported only for a path of the directory
\* set that is not in the file index.
C11_Stat ==
    last.op = "stat" =>
        LET inFiles == last.filename \in DOMAIN archive.entryHash
            inDirs == last.filename \in archive.dirHash
        IN  /\ last.ret \in {0, 1}
            /\ (last.ret = 0) <=> (~inFiles /\ ~inDirs)
            /\ last.ret = 0 =>
                   last.err = "NOT_FOUND" /\ last.stat = CallerStat
            /\ last.ret = 1 =>
                   /\ last.stat.readonly = 1
                   /\ last.stat.modtime = 0
                   /\ last.stat.createtime = 0
                   /\ last.stat.accesstime = 0
                   /\ last.stat.filetype \in {"REGULAR", "DIRECTORY"}
                   /\ inFiles =>
                          /\ last.stat.filetype = "REGULAR"
                          /\ last.stat.filesize
                                 = archive.entryHash[last.filename].size
                   /\ last.stat.filetype = "DIRECTORY" =>
                          inDirs /\ ~inFiles /\ last.stat.filesize = 0

\* stat of a path that is a file and an inferred directory at once ("a" of
\* the first archive) has reported a file of the entry's size
C11_Witness ==
    /\ last.op = "stat" /\ last.ret = 1
    /\ last.filename \in DOMAIN archive.entryHash
    /\ last.filename \in archive.dirHash
    /\ last.stat.filetype = "REGULAR" /\ last.stat.filesize = 1

\* C12: on an archive mount, openWrite, openAppend, remove and mkdir report
\* failure (0) for every path and in every state of the archive, and leave
\* the file index and the directory set as they were.
C12_Unsupported ==
    [][last'.op \in {"openWrite", "openAppend", "remove", "mkdir"} =>
         /\ last'.ret = 0
         /\ archive' = archive
         /\ handles' = handles
      ]_vars

\* remove of an existing entry has failed while a handle of that entry is
\* open
C12_Witness ==
    /\ last.op = "remove" /\ last.ret = 0
    /\ last.filename \in DOMAIN archive.entryHash
    /\ \E h \in OpenHandles :
           handles[h].data = archive.entryHash[last.filename]

(***************************************************************************)
(* Properties of the facade.                                               *)
(***************************************************************************)
\* the candidates of a name in a category, in the order of the category's
\* extension list: name + "." + ext
candidates(filename, type) ==
    IF type = "Undefined" THEN <<>>
    ELSE [i \in 1..Len(fileExtensions[type]) |->
             filename \o <<Dot>> \o fileExtensions[type][i]]

\* the name the resolution algorithm gives: the name itself if it exists,
\* else the first candidate that exists, else none
resolve(fs, filename, type) ==
    LET c == candidates(filename, type)
        hits == {i \in 1..Len(c) : c[i] \in fs}
    IN  IF filename \in fs THEN [found |-> TRUE, name |-> filename]
        ELSE IF hits = {} THEN [found |-> FALSE, name |-> <<>>]
        ELSE [found |-> TRUE,
              name |-> c[CHOOSE k \in hits : \A j \in hits : k <= j]]

\* C13: exists and openRead resolve a name to itself if it exists verbatim,
\* else (category known) to name + "." + ext for the first ext of the
\* category's list for which that file exists; if nothing resolves, exists
\* returns false and openRead fails with FileNotFound carrying the requested
\* name; exists is true exactly when openRead does not fail with
\* FileNotFound.
C13_Resolve ==
    LET r == resolve(physfs, last.filename, last.type)
    IN  /\ last.op = "exists" =>
              /\ last.ret = r.found
              /\ \A opens \in BOOLEAN :
                     last.ret = (openReadInt(physfs, last.filename,
                                             last.type, opens).exc
                                    # "NoFileError")
        /\ last.op = "fsOpenRead" =>
              /\ (last.exc = "NoFileError") <=> ~r.found
              /\ last.exc = "NoFileError" => last.arg = last.filename
              /\ last.exc = "none" => last.opened = r.name
              /\ (last.exc # "NoFileError")
                     = exists(physfs, last.filename, last.type)

\* C13 for the names whose candidates fit the buffer of completeFileName
C13_ResolveShort ==
    (last.op \in {"exists", "fsOpenRead"}
        /\ Len(last.filename) + 4 < BuffSize) => C13_Resolve

\* C15: once openArchive has returned an index, no enumerate, openRead,
\* stat, or read, seek, duplicate or close of a handle opened from it changes
\* the file index (keys, offset, size, startMagic of each entry) or the
\* directory set; only closeArchive ends it.
C15_IndexImmutable ==
    [][mount = "mounted" =>
          \/ archive' = archive /\ mount' = "mounted"
          \/ last'.op = "closeArchive"
      ]_vars

\* a handle of a mounted archive with entries has been opened, read,
\* duplicated and one of the two closed
C15_Witness ==
    /\ mount = "mounted"
    /\ DOMAIN archive.entryHash # {}
    /\ Len(handles) = 2
    /\ last.op = "destroy"
    /\ \E h \in OpenHandles : handles[h].currentOffset > 0

(***************************************************************************)
(* Properties of the parser.  The entry table as the format defines it is  *)
(* read off the backing file with the keystream in closed form: the word   *)
(* in use after n recurrence steps is the seed advanced n times.           *)
(***************************************************************************)
keystream(n) == advanceMagicN(RGSS_MAGIC, n)

\* the table entries from position pos on, steps recurrence steps having
\* been spent before: per entry the stored nameLen, the stored name
\* (decrypted, not normalised), the position after the entrySize field, the
\* size, and the steps spent up to and including the entrySize field.  An
\* entry whose fields the file ends in is listed (complete = FALSE) and is
\* the last
RECURSIVE table(_, _, _)
table(s, pos, steps) ==
    IF Len(s) - pos < 4 THEN <<>>
    ELSE LET w == XorWord(SubSeq(s, pos + 1, pos + 4), keystream(steps))
         IN  IF tooLong(w) THEN <<>>
             ELSE
               LET nameLen == ToNat(w)
                   offset == pos + 4 + nameLen + 4
                   spent == steps + nameLen + 2
               IN  IF offset > Len(s)
                   THEN << [complete |-> FALSE, nameLen |-> nameLen,
                            name |-> <<>>, offset |-> Len(s), size |-> 0,
                            steps |-> spent] >>
                   ELSE
                     << [complete |-> TRUE, nameLen |-> nameLen,
                         name |-> [i \in 1..nameLen |->
                                      Xor8(s[pos + 4 + i],
                                           keystream(steps + i)[1])],
                         offset |-> offset,
                         size |-> ToNat(XorWord(
                                     SubSeq(s, offset - 3, offset),
                                     keystream(spent - 1))),
                         steps |-> spent] >>
                       \o table(s, offset + ToNat(XorWord(
                                     SubSeq(s, offset - 3, offset),
                                     keystream(spent - 1))),
                                spent)

\* the entry table of the backing file
storedTable == table(stream, 8, 0)

\* a stored name as a logical path: each backslash replaced by '/'
normalised(name) ==
    [i \in 1..Len(name) |-> IF name[i] = Backslash THEN Slash ELSE name[i]]

\* a name the archiver operations can be asked about: a C string
isCString(name) == \A i \in 1..Len(name) : name[i] # 0

\* C14: after parsing, no key of the file index or of the directory set
\* contains a backslash; an entry stored with backslashes is found by
\* openRead and stat under the name with '/' in their place, and each prefix
\* that ends before a replaced backslash is in the directory set.
C14_Backslash ==
    mount = "mounted" =>
        /\ \A k \in (DOMAIN archive.entryHash) \cup archive.dirHash :
               \A i \in 1..Len(k) : k[i] # Backslash
        /\ \A j \in 1..Len(storedTable) :
             LET e == storedTable[j]
                 p == normalised(e.name)
             IN  (e.complete /\ isCString(e.name)) =>
                   /\ p \in DOMAIN archive.entryHash
                   /\ stat(archive, p, CallerStat).ret = 1
                   /\ (last.op = "stat" /\ last.filename = p) =>
                          last.ret = 1 /\ last.stat.filetype = "REGULAR"
                   /\ (last.op = "openRead" /\ last.filename = p) =>
                          last.ret # 0
                   /\ \A i \in 2..Len(p) :
                          e.name[i] = Backslash =>
                              SubSeq(p, 1, i - 1) \in archive.dirHash

\* the entry stored as "a\b/c" has been opened under "a/b/c"
C14_Witness ==
    /\ mount = "mounted"
    /\ \E j \in 1..Len(storedTable) :
           /\ storedTable[j].complete
           /\ \E i \in 2..Len(storedTable[j].name) :
                  storedTable[j].name[i] = Backslash
           /\ last.op = "openRead" /\ last.ret # 0
           /\ last.filename = normalised(storedTable[j].name)
           /\ SubSeq(last.filename, 1, 1) \in archive.dirHash

\* the sum over the entries j <= k of nameLen_j + 2
RECURSIVE stepsUpTo(_, _)
stepsUpTo(t, k) == IF k = 0 THEN 0 ELSE stepsUpTo(t, k - 1) + t[k].nameLen + 2

\* the position right after the entrySize field of the k-th entry, counted
\* from the fields before it: the header, and per earlier entry two 4-byte
\* fields, its name and its payload
RECURSIVE afterSizeField(_, _)
afterSizeField(t, k) ==
    IF k = 1 THEN 8 + 4 + t[1].nameLen + 4
    ELSE afterSizeField(t, k - 1) + t[k - 1].size + 4 + t[k].nameLen + 4

\* C16: parsing spends one recurrence step per nameLen field, one per
\* filename byte and one per entrySize field: the startMagic recorded for
\* the k-th entry is the seed 0xDEADCAFE advanced (mod 2^32) the sum over
\* j <= k of (nameLen_j + 2) times, and its recorded offset is the stream
\* position right after its entrySize field.
C16_Keystream ==
    mount = "mounted" =>
        \A k \in 1..Len(storedTable) :
            LET e == storedTable[k]
                key == CStr(normalised(e.name))
            IN  e.complete =>
                  /\ key \in DOMAIN archive.entryHash
                  /\ archive.entryHash[key].startMagic
                         = advanceMagicN(RGSS_MAGIC,
                                         stepsUpTo(storedTable, k))
                  /\ archive.entryHash[key].offset
                         = afterSizeField(storedTable, k)
                  /\ archive.entryHash[key].offset <= Len(stream)
                  /\ (last.op = "openRead" /\ last.filename = key) =>
                         handles[last.ret].currentMagic
                             = advanceMagicN(RGSS_MAGIC,
                                             stepsUpTo(storedTable, k))

\* an archive of three entries is mounted and its third entry, whose name
\* has four bytes, has been opened
C16_Witness ==
    /\ mount = "mounted"
    /\ Len(storedTable) = 3
    /\ storedTable[3].complete /\ storedTable[3].nameLen = 4
    /\ last.op = "openRead" /\ last.ret # 0
    /\ last.filename = normalised(storedTable[3].name)

\* the strict prefixes of a path that end before a '/': p[0..i) for the
\* positions i > 0 with p[i] = '/' (position i is index i + 1 here)
prefixesOf(p) == {SubSeq(p, 1, i - 1) : i \in {j \in 2..Len(p) : p[j] = Slash}}

\* C17: after parsing, the directory set is exactly the set of the strict
\* path prefixes of the entry paths: it holds p[0..i) for every entry path p
\* and every position i > 0 with p[i] = '/', and nothing else.
C17_DirSet ==
    mount = "mounted" =>
        archive.dirHash = UNION {prefixesOf(p) : p \in DOMAIN archive.entryHash}

\* C17 for the backing files none of whose stored names holds a NUL byte
C17_DirSetOfCStrings ==
    (mount = "mounted"
        /\ \A k \in 1..Len(storedTable) : isCString(storedTable[k].name))
      => archive.dirHash
            = UNION {prefixesOf(p) : p \in DOMAIN archive.entryHash}

\* the entries of the index are those of the iterations the table has before
\* the first position that leaves fewer than 4 bytes for a nameLen field
entriesAsTable ==
    /\ {archive.entryHash[k].offset : k \in DOMAIN archive.entryHash}
           = {storedTable[j].offset : j \in 1..Len(storedTable)}
    /\ Cardinality(DOMAIN archive.entryHash) = Len(storedTable)

\* C18: on every finite backing stream with a valid header, parsing
\* terminates (openArchive returns the index), it stops at, and only at, the
\* first read of a nameLen field that yields fewer than 4 bytes, and an entry
\* is recorded for exactly the iterations before that read (none for a table
\* with zero entries).
C18_Termination ==
    (last.op = "openArchive" /\ ~last.forWrite /\ headerMatches(stream)) =>
        /\ last.ok /\ mount = "mounted" /\ ~crashed
        /\ entriesAsTable
        /\ archivePos >= Len(stream) - 3

\* C18 for the calls that never store beyond nameBuf
C18_TerminationInBuffer ==
    (last.op = "openArchive" /\ ~last.forWrite /\ headerMatches(stream)
        /\ ~crashed) =>
        /\ last.ok /\ mount = "mounted"
        /\ entriesAsTable
        /\ archivePos >= Len(stream) - 3

(***************************************************************************)
(* Properties of concurrent handles.                                       *)
(***************************************************************************)
\* the read that has just returned gave the bytes, the count and the cursor
\* that RGSS_ioRead gives the same handle when nothing else runs
sameAsAlone ==
    \E junk \in JunkBytes :
        LET r == ioRead(stream, last.before, last.len, junk)
        IN  /\ last.buffer = r.buffer
            /\ last.ret = r.ret
            /\ handles[last.h].currentOffset = r.entry.currentOffset
            /\ handles[last.h].currentMagic = r.entry.currentMagic

\* C19: two distinct open handles of one archive, from separate openRead
\* calls or from duplicate(), each driven by its own thread, need no
\* synchronisation: under every interleaving of their read and seek steps,
\* down to the single raw-byte reads, each read returns the bytes and leaves
\* the cursor that it does when the handle runs alone.
C19_NoSynchronisation == last.op = "read" => sameAsAlone

\* C19 for two handles whose raw streams are two
C19_OwnStreams ==
    (last.op = "read" /\ handles[1].io # handles[2].io) => sameAsAlone

(***************************************************************************)
(* The cursor bound.                                                       *)
(***************************************************************************)
\* C20: for every entry, of any size (0 included), and after every sequence
\* of reads and seeks, failed or not, 0 <= currentOffset <= size; so
\* size - currentOffset never wraps in read, and read consumes no raw byte
\* outside the entry's window [offset, offset + size).
C20_CursorBound ==
    /\ \A h \in OpenHandles :
           /\ 0 <= handles[h].currentOffset
           /\ handles[h].currentOffset <= handles[h].data.size
    /\ last.op = "read" =>
           /\ last.before.currentOffset <= last.before.data.size
           /\ last.before.currentOffset + last.ret <= last.before.data.size
           /\ ios[last.before.io] <= last.before.data.offset
                                        + last.before.data.size

\* C20 for the handles of entries that are not empty
C20_CursorBoundNonEmpty ==
    /\ \A h \in OpenHandles :
           handles[h].data.size > 0 =>
               handles[h].currentOffset <= handles[h].data.size
    /\ (last.op = "read" /\ last.before.data.size > 0) =>
           /\ last.before.currentOffset + last.ret <= last.before.data.size
           /\ ios[last.before.io] <= last.before.data.offset
                                        + last.before.data.size

(***************************************************************************)
(* Properties of FileStream.                                               *)
(***************************************************************************)
\* every handle has been closed at most once
closedAtMostOnce ==
    \A f \in 1..Len(fileStreams.files) : fileStreams.files[f] <= 1

\* the call that has just been made passed no closed handle to the library
noUseAfterClose ==
    last.op \in Methods \cup {"close"} => ~last.wasClosed

\* on an object without a handle (closed, or constructed from a null
\* pointer) the five methods return -1 without calling the library, and
\* close calls nothing and leaves the object without a handle
nullStreamInert ==
    /\ (last.op \in Methods /\ last.p = NullFile) =>
           last.ret = -1 /\ last.passed = NullFile
    /\ (last.op = "close" /\ last.p = NullFile) =>
           last.passed = NullFile /\ fileStreams.objs[last.s] = NullFile
    /\ last.op = "close" => fileStreams.objs[last.s] = NullFile

\* C21: across any sequence of FileStream copies and assignments and of
\* read, seek, tell, getSize, write and close calls, an underlying file
\* handle is closed at most once and is never passed to the library after
\* it has been closed; on a stream that has been closed or has no handle the
\* five methods return -1 and close does nothing.
C21_Lifecycle == closedAtMostOnce /\ noUseAfterClose /\ nullStreamInert

\* the part of C21 about the object that close was called on
C21_ClosedObject == nullStreamInert

====
